---- MODULE Spec2Model ----
(***************************************************************************)
(* Model of remotefields/base.py: RemoteField and                          *)
(* RemoteFieldsModelSerializerMixin.  A serializer instance is built over  *)
(* an object (a model instance, a queryset or nothing), its `data`         *)
(* property is read up to MaxAccess times, and every endpoint invocation   *)
(* is logged.  Python values are tagged records so that None, integers,    *)
(* strings, dicts and lists can be told apart and compared.                *)
(***************************************************************************)
EXTENDS Integers, Sequences, FiniteSets, TLC

\* ------------------------------------------------------------------ bounds
MaxRecords == 2
MaxRelated == 2
MaxAccess == 2

VARIABLES serializer, object, remote, hashRev, fields, data, history

vars == <<serializer, object, remote, hashRev, fields, data, history>>

\* ----------------------------------------------------------- Python values
None == [t |-> "None"]
Num(n) == [t |-> "int", i |-> n]
Str(x) == [t |-> "str", s |-> x]
Dict(f) == [t |-> "dict", d |-> f]
List(q) == [t |-> "list", l |-> q]
Obj(attrs) == [t |-> "obj", a |-> attrs]
Manager(q) == [t |-> "manager", m |-> q]
QuerySet(q) == [t |-> "queryset", q |-> q]

Range(q) == {q[i] : i \in 1..Len(q)}

Has(dict, key) == key \in DOMAIN dict.d
SetItem(dict, key, value) ==
    Dict([n \in DOMAIN dict.d \cup {key} |-> IF n = key THEN value ELSE dict.d[n]])

getattr(obj, name) ==
    IF obj.t = "obj" /\ name \in DOMAIN obj.a THEN obj.a[name] ELSE None

Return(v) == [exc |-> "none", value |-> v]
Raise(e) == [exc |-> e, value |-> None]

\* Iteration order of a Python set of field names: fixed for one run of the
\* program, arbitrary across runs (hashRev picks one of two orders).
AllNames == <<"id", "owner_id", "owner_name", "test_instance", "test_instances",
              "thing", "thing_id", "thing_name">>
Reverse(q) == [i \in 1..Len(q) |-> q[Len(q) + 1 - i]]
SetToTuple(S) ==
    LET InS(n) == n \in S
    IN SelectSeq(IF hashRev THEN Reverse(AllNames) ELSE AllNames, InS)

\* ------------------------------------------------------ the remote service
RemoteIds == {1, 2}
AbsentId == 3
ThingName(k) == IF k = 1 THEN "Name of the thing" ELSE "Name of another thing"

\* The record the service holds under id k.  In shape "noname" record 2
\* lacks the `name` attribute; every record carries an `extra` attribute.
RemoteRecord(k) ==
    IF remote.shape = "noname" /\ k = 2
    THEN [id |-> Num(k), extra |-> Str("y")]
    ELSE [id |-> Num(k), name |-> Str(ThingName(k)), extra |-> Str("y")]

list_endpoint ==
    IF remote.listDown THEN Raise("OtherError")
    ELSE Return(<<RemoteRecord(1), RemoteRecord(2)>>)

detail_endpoint(pk) ==
    IF pk.t = "int" /\ pk.i \in RemoteIds THEN Return(RemoteRecord(pk.i))
    ELSE Raise(remote.missFault)

Call(endpoint, cls, name, pk) ==
    [endpoint |-> endpoint, serializer |-> cls, field |-> name, pk |-> pk]

\* ------------------------------------------------------- field declarations
RemoteField(source, remote_sources, flat) ==
    [kind |-> "remote", source |-> source, remote_sources |-> remote_sources,
     flat |-> flat, read_only |-> FALSE]
ModelField(read_only) == [kind |-> "model", read_only |-> read_only]
NestedSerializer(cls) == [kind |-> "serializer", cls |-> cls, read_only |-> FALSE]

TestSerializer ==
    [fields |-> <<"id", "thing">>,
     declared |-> [thing |-> RemoteField("thing_id", <<"id", "name">>, FALSE)]]
TestSerializerWithFlatField ==
    [fields |-> <<"id", "thing_name">>,
     declared |-> [thing_name |-> RemoteField("thing_id", <<"name">>, TRUE)]]
KeyedTestSerializer ==
    [fields |-> <<"id", "thing_id", "thing">>,
     declared |-> [thing |-> RemoteField("thing_id", <<"id", "name">>, FALSE)]]
TwoFieldsTestSerializer ==
    [fields |-> <<"id", "thing", "owner_id", "owner_name">>,
     declared |-> [thing |-> RemoteField("thing_id", <<"id", "name">>, FALSE),
                   owner_name |-> RemoteField("owner_id", <<"name">>, TRUE)]]
ParentTestSerializer ==
    [fields |-> <<"id", "test_instance">>,
     declared |-> [test_instance |-> NestedSerializer("TestSerializer")]]
ParentWithManyTestSerializer ==
    [fields |-> <<"id", "test_instances">>,
     declared |-> [test_instances |-> NestedSerializer("TestSerializer")]]
ParentWithThingTestSerializer ==
    [fields |-> <<"id", "thing", "test_instance">>,
     declared |-> [thing |-> RemoteField("thing_id", <<"id", "name">>, FALSE),
                   test_instance |-> NestedSerializer("TestSerializer")]]

SerializerNames ==
    {"TestSerializer", "TestSerializerWithFlatField", "KeyedTestSerializer",
     "TwoFieldsTestSerializer", "ParentTestSerializer",
     "ParentWithManyTestSerializer", "ParentWithThingTestSerializer"}

Class(cls) ==
    CASE cls = "TestSerializer" -> TestSerializer
      [] cls = "TestSerializerWithFlatField" -> TestSerializerWithFlatField
      [] cls = "KeyedTestSerializer" -> KeyedTestSerializer
      [] cls = "TwoFieldsTestSerializer" -> TwoFieldsTestSerializer
      [] cls = "ParentTestSerializer" -> ParentTestSerializer
      [] cls = "ParentWithManyTestSerializer" -> ParentWithManyTestSerializer
      [] cls = "ParentWithThingTestSerializer" -> ParentWithThingTestSerializer

\* get_fields(): the fields named by opts.fields, in that order; a name that
\* is not declared on the class is a default model field (`id` is read-only).
get_fields(cls, optsFields) ==
    [k \in 1..Len(optsFields) |->
        [name |-> optsFields[k],
         field |-> IF optsFields[k] \in DOMAIN Class(cls).declared
                   THEN Class(cls).declared[optsFields[k]]
                   ELSE ModelField(optsFields[k] = "id")]]

get_remote_fields(cls, optsFields) ==
    LET IsRemote(e) == e.field.kind = "remote"
    IN SelectSeq(get_fields(cls, optsFields), IsRemote)

get_remote_serializers(cls, optsFields) ==
    LET IsSerializer(e) == e.field.kind = "serializer"
    IN SelectSeq(get_fields(cls, optsFields), IsSerializer)

\* RemoteField.field_to_native: the raw join-key attribute of the object.
field_to_native(field, obj) == getattr(obj, field.source)

\* The framework's to_native of a serializer without the mixin's additions:
\* one entry per field; read-only fields are skipped when there is no
\* object, a model field of no object serializes to the integer field's
\* empty value 0, a nested serializer is rendered without remote resolution.
RECURSIVE super_to_native(_, _, _)
super_to_native(cls, optsFields, obj) ==
    LET all == get_fields(cls, optsFields)
        Kept(e) == ~(e.field.read_only /\ obj = None)
        kept == SelectSeq(all, Kept)
        FieldAt(n) == (CHOOSE e \in Range(kept) : e.name = n).field
        Plain(child, o) == super_to_native(child, Class(child).fields, o)
        Value(n) ==
            LET f == FieldAt(n) IN
            CASE f.kind = "remote" -> field_to_native(f, obj)
              [] f.kind = "model" -> IF obj = None THEN Num(0) ELSE getattr(obj, n)
              [] f.kind = "serializer" ->
                    LET value == getattr(obj, n) IN
                    CASE value.t = "manager" ->
                            List([k \in 1..Len(value.m) |-> Plain(f.cls, value.m[k])])
                      [] value = None -> None
                      [] OTHER -> Plain(f.cls, value)
    IN Dict([n \in {e.name : e \in Range(kept)} |-> Value(n)])

\* ------------------------------------------------------------- projection
\* Mutant of _fill_remote_field: a nested field keeps the whole remote object.
FillWholeRemoteObject(remote_field, remote_object) ==
    IF remote_field.flat
    THEN LET field_name == remote_field.remote_sources[1] IN
         IF field_name \in DOMAIN remote_object
         THEN Return(remote_object[field_name])
         ELSE Raise("KeyError")
    ELSE Return(Dict(remote_object))

\* Mutant of _fill_remote_field: a missing attribute is a dedicated hard
\* error instead of the KeyError of the subscript.
FillOrMissingRemoteAttribute(remote_field, remote_object) ==
    IF remote_field.flat
    THEN LET field_name == remote_field.remote_sources[1] IN
         IF field_name \in DOMAIN remote_object
         THEN Return(remote_object[field_name])
         ELSE Raise("MissingRemoteAttribute")
    ELSE LET names == Range(remote_field.remote_sources) IN
         IF names \subseteq DOMAIN remote_object
         THEN Return(Dict([n \in names |-> remote_object[n]]))
         ELSE Raise("MissingRemoteAttribute")

_fill_remote_field(remote_field, remote_object) ==
    IF remote_field.flat
    THEN LET field_name == remote_field.remote_sources[1] IN
         IF field_name \in DOMAIN remote_object
         THEN Return(remote_object[field_name])
         ELSE Raise("KeyError")
    ELSE LET names == Range(remote_field.remote_sources) IN
         IF names \subseteq DOMAIN remote_object
         THEN Return(Dict([n \in names |-> remote_object[n]]))
         ELSE Raise("KeyError")

\* ------------------------------------------------------ remote resolution
\* A frame is the state a resolution loop carries: the exception in flight
\* ("none" when there is none), the data mutated so far, the calls so far.
Frame(exc, d, calls) == [exc |-> exc, data |-> d, calls |-> calls]

\* Mutant of AlreadyExpanded: the already-expanded check is missing.
NeverExpanded(d, remote_field) == FALSE

\* Mutant of AlreadyExpanded: the check tests for a list instead of a dict.
ExpandedIsList(d, remote_field) == d.d[remote_field.source].t = "list"

\* `isinstance(data[remote_field.source], dict)` of the already-expanded
\* check; evaluated after `local_field_name in data` held.
AlreadyExpanded(d, remote_field) == d.d[remote_field.source].t = "dict"

\* Mutant of CaughtInObj: a bare `except` swallows every failure.
CaughtAnything(exc) == TRUE

\* `except (KeyError, ValueError)` of _add_remote_fields_to_obj.
CaughtInObj(exc) == exc \in {"KeyError", "ValueError"}

\* One iteration of the loop of _add_remote_fields_to_obj.
ResolveObjField(cls, local_field_name, remote_field, prev) ==
    LET d == prev.data
        Put(v, calls) == Frame("none", SetItem(d, local_field_name, v), calls)
        Handle(exc, calls) ==
            IF CaughtInObj(exc) THEN Put(None, calls) ELSE Frame(exc, d, calls)
    IN IF Has(d, local_field_name) /\ ~Has(d, remote_field.source)
       THEN Frame("KeyError", d, prev.calls)
       ELSE IF Has(d, local_field_name) /\ AlreadyExpanded(d, remote_field)
       THEN Put(d.d[remote_field.source], prev.calls)
       ELSE IF ~Has(d, remote_field.source)
       THEN Handle("KeyError", prev.calls)
       ELSE LET pk == d.d[remote_field.source]
                log == Append(prev.calls, Call("detail", cls, local_field_name, pk))
                remote_object == detail_endpoint(pk)
                filled == _fill_remote_field(remote_field, remote_object.value)
            IN IF pk = None THEN Put(None, prev.calls)
               ELSE IF remote_object.exc # "none" THEN Handle(remote_object.exc, log)
               ELSE IF filled.exc # "none" THEN Handle(filled.exc, log)
               ELSE Put(filled.value, log)

_add_remote_fields_to_obj(cls, optsFields, self_data, calls) ==
    LET remote_fields == get_remote_fields(cls, optsFields)
        step[k \in 0..Len(remote_fields)] ==
            IF k = 0 THEN Frame("none", self_data, calls)
            ELSE LET prev == step[k - 1] IN
                 IF prev.exc # "none" THEN prev
                 ELSE ResolveObjField(cls, remote_fields[k].name,
                                      remote_fields[k].field, prev)
    IN step[Len(remote_fields)]

\* remote_objects_data: remote id -> remote object, a later duplicate wins.
remote_objects_data(remote_objects) ==
    [pk \in {remote_objects[k]["id"] : k \in 1..Len(remote_objects)} |->
        LET last == CHOOSE k \in 1..Len(remote_objects) :
                       /\ remote_objects[k]["id"] = pk
                       /\ \A j \in (k + 1)..Len(remote_objects) :
                             remote_objects[j]["id"] # pk
        IN remote_objects[last]]

\* Mutant of CaughtInList: the lookup is not guarded.
CaughtNothing(exc) == FALSE

\* `except KeyError` of _add_remote_fields_to_list.
CaughtInList(exc) == exc = "KeyError"

\* The try block of _add_remote_fields_to_list for one local object: the
\* index lookup and the projection.  A dict or list join key is unhashable,
\* so the lookup raises TypeError.
LookupAndFill(remote_field, index, remote_pk) ==
    IF remote_pk.t \in {"dict", "list"} THEN Raise("TypeError")
    ELSE IF remote_pk \notin DOMAIN index THEN Raise("KeyError")
    ELSE _fill_remote_field(remote_field, index[remote_pk])

\* The inner loop of _add_remote_fields_to_list over the local objects.
\* Reading the join key is outside the try block.
FillLocalObjects(local_field_name, remote_field, index, objects) ==
    LET step[k \in 0..Len(objects)] ==
            IF k = 0 THEN [exc |-> "none", objects |-> objects]
            ELSE LET prev == step[k - 1]
                     local_object == prev.objects[k]
                     Put(v) == [exc |-> "none",
                                objects |-> [prev.objects EXCEPT
                                    ![k] = SetItem(local_object, local_field_name, v)]]
                     tried == LookupAndFill(remote_field, index,
                                  local_object.d[remote_field.source])
                 IN IF prev.exc # "none" THEN prev
                    ELSE IF ~Has(local_object, remote_field.source)
                    THEN [prev EXCEPT !.exc = "KeyError"]
                    ELSE IF tried.exc = "none" THEN Put(tried.value)
                    ELSE IF CaughtInList(tried.exc) THEN Put(None)
                    ELSE [prev EXCEPT !.exc = tried.exc]
    IN step[Len(objects)]

\* Mutant of FetchList: the endpoint is invoked once per local object.
FetchListPerObject(cls, local_field_name, objects, calls) ==
    calls \o [k \in 1..Len(objects) |-> Call("list", cls, local_field_name, None)]

\* `remote_objects = list_endpoint()`: one invocation for the whole batch.
FetchList(cls, local_field_name, objects, calls) ==
    Append(calls, Call("list", cls, local_field_name, None))

\* The frame after the local objects of one remote field were filled.
Filled(log, done) == Frame(done.exc, List(done.objects), log)

_add_remote_fields_to_list(cls, optsFields, self_data, calls) ==
    LET remote_fields == get_remote_fields(cls, optsFields)
        step[k \in 0..Len(remote_fields)] ==
            IF k = 0 THEN Frame("none", self_data, calls)
            ELSE LET prev == step[k - 1]
                     local_field_name == remote_fields[k].name
                     remote_field == remote_fields[k].field
                     log == FetchList(cls, local_field_name, prev.data.l, prev.calls)
                     remote_objects == list_endpoint
                 IN IF prev.exc # "none" THEN prev
                    ELSE IF remote_objects.exc # "none"
                    THEN Frame(remote_objects.exc, prev.data, log)
                    ELSE Filled(log, FillLocalObjects(local_field_name, remote_field,
                                         remote_objects_data(remote_objects.value),
                                         prev.data.l))
    IN step[Len(remote_fields)]

\* Mutant of DelSources: the added join keys are left in the record.
KeepSources(dict, new_sources) == Return(dict)

\* `del instance[field]` for every field of new_sources (lines 113-114,
\* 117-118); deleting a key that is not there raises KeyError.
DelSources(dict, new_sources) ==
    IF new_sources \subseteq DOMAIN dict.d
    THEN Return(Dict([n \in DOMAIN dict.d \ new_sources |-> dict.d[n]]))
    ELSE Raise("KeyError")

\* -------------------------------------------------- serialization pipeline
\* `data` returns
\*   [exc, value, fields, data, calls]
\* the exception raised ("none": it returned `value`), the serializer's
\* opts.fields and _data afterwards, and the endpoint calls made so far.
Outcome(exc, value, optsFields, d, calls) ==
    [exc |-> exc, value |-> value, fields |-> optsFields, data |-> d, calls |-> calls]

RECURSIVE Data(_, _, _, _, _)
RECURSIVE to_native(_, _, _, _)

\* `ret[field_name] = field.__class__(obj_field).data` once the child's
\* `data` has come back as `child`.
EmbedChild(prev, field_name, child) ==
    IF child.exc # "none" THEN Frame(child.exc, prev.data, child.calls)
    ELSE IF prev.data.t = "list" THEN Frame("TypeError", prev.data, child.calls)
    ELSE Frame("none", SetItem(prev.data, field_name, child.value), child.calls)

\* The framework's record of obj, a list of records for a related manager.
NativeRecord(cls, optsFields, obj) ==
    IF obj.t = "manager"
    THEN List([k \in 1..Len(obj.m) |-> super_to_native(cls, optsFields, obj.m[k])])
    ELSE super_to_native(cls, optsFields, obj)

\* Mutant of to_native: the nested serializers are left as the framework
\* rendered them.
ToNativeUnresolved(cls, optsFields, obj, calls) ==
    Frame("none", NativeRecord(cls, optsFields, obj), calls)

\* Mutant of to_native: the record's own remote fields are added before the
\* nested serializers are resolved.
ToNativeOwnFieldsFirst(cls, optsFields, obj, calls) ==
    LET nested == get_remote_serializers(cls, optsFields)
        step[k \in 0..Len(nested)] ==
            IF k = 0
            THEN IF obj.t = "obj"
                 THEN _add_remote_fields_to_obj(cls, optsFields,
                          NativeRecord(cls, optsFields, obj), calls)
                 ELSE Frame("none", NativeRecord(cls, optsFields, obj), calls)
            ELSE IF step[k - 1].exc # "none" THEN step[k - 1]
            ELSE EmbedChild(step[k - 1], nested[k].name,
                     Data(nested[k].field.cls, getattr(obj, nested[k].name),
                          Class(nested[k].field.cls).fields, None,
                          step[k - 1].calls))
    IN step[Len(nested)]

\* RemoteFieldsModelSerializerMixin.to_native: the framework's record, then
\* every nested remote-field serializer is replaced by the `data` of a fresh
\* instance of its class.
to_native(cls, optsFields, obj, calls) ==
    LET nested == get_remote_serializers(cls, optsFields)
        step[k \in 0..Len(nested)] ==
            IF k = 0 THEN Frame("none", NativeRecord(cls, optsFields, obj), calls)
            ELSE IF step[k - 1].exc # "none" THEN step[k - 1]
            ELSE EmbedChild(step[k - 1], nested[k].name,
                     Data(nested[k].field.cls, getattr(obj, nested[k].name),
                          Class(nested[k].field.cls).fields, None,
                          step[k - 1].calls))
    IN step[Len(nested)]

\* One more item of the framework's list comprehension over the object.
AppendItem(prev, item) ==
    IF item.exc # "none" THEN Frame(item.exc, prev.data, item.calls)
    ELSE Frame("none", List(Append(prev.data.l, item.data)), item.calls)

\* The framework's `data`: the cached _data when there is one, else
\* to_native of the object, item by item when the object is iterable.
BaseData(cls, optsFields, obj, cached, calls) ==
    LET step[k \in 0..(IF obj.t = "queryset" THEN Len(obj.q) ELSE 1)] ==
            IF k = 0 THEN Frame("none", List(<<>>), calls)
            ELSE IF step[k - 1].exc # "none" THEN step[k - 1]
            ELSE IF obj.t = "queryset"
            THEN AppendItem(step[k - 1],
                     to_native(cls, optsFields, obj.q[k], step[k - 1].calls))
            ELSE to_native(cls, optsFields, obj, calls)
    IN IF cached # None THEN Frame("none", cached, calls)
       ELSE step[IF obj.t = "queryset" THEN Len(obj.q) ELSE 1]

\* Lines 112-114: the added join keys are deleted from every instance.
StripList(instances, new_sources) ==
    LET step[k \in 0..Len(instances)] ==
            IF k = 0 THEN Return(instances)
            ELSE IF step[k - 1].exc # "none" THEN step[k - 1]
            ELSE IF ~(new_sources \subseteq DOMAIN instances[k].d)
            THEN [step[k - 1] EXCEPT !.exc = "KeyError"]
            ELSE Return([step[k - 1].value EXCEPT
                            ![k] = DelSources(instances[k], new_sources).value])
    IN step[Len(instances)]

\* Lines 111-114 and 116-119 once the remote fields were added (`added`)
\* and the join keys deleted (`stripped`).
ReturnData(optsFields, added, stripped, aslist) ==
    IF added.exc # "none"
    THEN Outcome(added.exc, None, optsFields, added.data, added.calls)
    ELSE IF stripped.exc # "none"
    THEN Outcome(stripped.exc, None, optsFields,
                 IF aslist THEN List(stripped.value) ELSE added.data, added.calls)
    ELSE IF aslist
    THEN Outcome("none", List(stripped.value), optsFields, List(stripped.value),
                 added.calls)
    ELSE Outcome("none", stripped.value, optsFields, stripped.value, added.calls)

\* Lines 110-119 once the remote fields were added.
StripAndReturn(optsFields, new_sources, added) ==
    IF added.data.t = "list"
    THEN ReturnData(optsFields, added, StripList(added.data.l, new_sources), TRUE)
    ELSE ReturnData(optsFields, added, DelSources(added.data, new_sources), FALSE)

\* Lines 107-119 once the framework's `data` has come back as `base`.
ResolveData(cls, extended, new_sources, restored, cached, base) ==
    IF base.exc # "none"
    THEN Outcome(base.exc, None, extended, cached, base.calls)
    ELSE IF base.data.t = "list"
    THEN StripAndReturn(restored, new_sources,
             _add_remote_fields_to_list(cls, restored, base.data, base.calls))
    ELSE StripAndReturn(restored, new_sources,
             _add_remote_fields_to_obj(cls, restored, base.data, base.calls))

\* Lines 99-102: the join keys missing from opts.fields.
NewSources(cls, optsFields) ==
    {e.field.source : e \in Range(get_remote_fields(cls, optsFields))}
        \ Range(optsFields)

\* The `data` property.
Data(cls, obj, optsFields, cached, calls) ==
    ResolveData(cls,
        optsFields \o SetToTuple(NewSources(cls, optsFields)),
        NewSources(cls, optsFields),
        SetToTuple(Range(optsFields)),
        cached,
        BaseData(cls, optsFields \o SetToTuple(NewSources(cls, optsFields)),
                 obj, cached, calls))

\* ------------------------------------------------------------------ inputs
PreExpanded == Dict([id |-> Num(7), name |-> Str("local thing")])
JoinValues == {None, Num(1), Num(2), Num(AbsentId), PreExpanded}
NestedJoinValues == {Num(1), Num(AbsentId)}

Worlds ==
    [shape : {"extra", "noname"},
     missFault : {"KeyError", "ValueError", "OtherError"},
     listDown : BOOLEAN]

\* The rows a queryset or relation delivers: the k-th row has id k.
Rows(Values, Make(_, _), n) ==
    UNION {{[k \in 1..len |-> Make(k, f[k])] : f \in [1..len -> Values]} : len \in 0..n}

ThingObj(k, v) == Obj([id |-> Num(k), thing_id |-> v])
TwoObj(k, v) == Obj([id |-> Num(k), thing_id |-> v[1], owner_id |-> v[2]])
ParentObj(k, v) == Obj([id |-> Num(k), test_instance |-> ThingObj(1, v)])
ParentManyObj(k, v) == Obj([id |-> Num(k), test_instances |-> Manager(v)])
ParentThingObj(k, v) ==
    Obj([id |-> Num(k), thing_id |-> v[1], test_instance |-> ThingObj(1, v[2])])

Instances(cls) ==
    CASE cls \in {"TestSerializer", "TestSerializerWithFlatField", "KeyedTestSerializer"} ->
            [values |-> JoinValues, empty |-> TRUE]
      [] cls = "TwoFieldsTestSerializer" ->
            [values |-> JoinValues \X NestedJoinValues, empty |-> TRUE]
      [] cls = "ParentTestSerializer" -> [values |-> JoinValues, empty |-> FALSE]
      [] cls = "ParentWithManyTestSerializer" ->
            [values |-> Rows(NestedJoinValues, ThingObj, MaxRelated), empty |-> FALSE]
      [] cls = "ParentWithThingTestSerializer" ->
            [values |-> NestedJoinValues \X NestedJoinValues, empty |-> FALSE]

MakeObj(cls, k, v) ==
    CASE cls \in {"TestSerializer", "TestSerializerWithFlatField", "KeyedTestSerializer"} ->
            ThingObj(k, v)
      [] cls = "TwoFieldsTestSerializer" -> TwoObj(k, v)
      [] cls = "ParentTestSerializer" -> ParentObj(k, v)
      [] cls = "ParentWithManyTestSerializer" -> ParentManyObj(k, v)
      [] cls = "ParentWithThingTestSerializer" -> ParentThingObj(k, v)

\* What a serializer of class cls can be constructed over: one instance, a
\* queryset of up to MaxRecords instances, or (classes without nested
\* serializers) no object at all.
Objects(cls) ==
    LET Make(k, v) == MakeObj(cls, k, v) IN
    {Make(1, v) : v \in Instances(cls).values}
    \cup {QuerySet(q) : q \in Rows(Instances(cls).values, Make, MaxRecords)}
    \cup (IF Instances(cls).empty THEN {None} ELSE {})

\* ----------------------------------------------------------- state machine
Init ==
    /\ serializer \in SerializerNames
    /\ object \in Objects(serializer)
    /\ remote \in Worlds
    /\ hashRev \in BOOLEAN
    /\ fields = Class(serializer).fields
    /\ data = None
    /\ history = <<>>

\* One read of serializer.data.
Commit(out) ==
    /\ fields' = out.fields
    /\ data' = out.data
    /\ history' = Append(history,
           [exc |-> out.exc, value |-> out.value, calls |-> out.calls])

AccessData ==
    /\ Len(history) < MaxAccess
    /\ Commit(Data(serializer, object, fields, data, <<>>))
    /\ UNCHANGED <<serializer, object, remote, hashRev>>

Next == AccessData

Spec == Init /\ [][Next]_vars

\* ------------------------------------------------------ reading the runs
Accesses == 1..Len(history)
Returned(a) == history[a].exc = "none"
IsCollection == object.t = "queryset"
IsSingle == object.t = "obj" \/ object = None
HasNested == \E n \in DOMAIN Class(serializer).declared :
                Class(serializer).declared[n].kind = "serializer"

\* The serializer's own RemoteFields and their declarations.
RemoteNames == {n \in DOMAIN Class(serializer).declared :
                   Class(serializer).declared[n].kind = "remote"}
Declaration(n) == Class(serializer).declared[n]

\* The pks of the calls access a made to `endpoint` for own remote field n.
OwnCalls(a, n, endpoint) ==
    LET Mine(c) == c.serializer = serializer /\ c.field = n /\ c.endpoint = endpoint
        mine == SelectSeq(history[a].calls, Mine)
    IN [k \in 1..Len(mine) |-> mine[k].pk]

\* The join-key value of remote field n in the serialized record of obj.
JoinKey(obj, n) ==
    IF obj = None THEN Num(0) ELSE getattr(obj, Declaration(n).source)

\* The serialized objects paired with the records access a returned.
Pairs(a) ==
    IF IsCollection
    THEN {[obj |-> object.q[k], out |-> history[a].value.l[k]] :
             k \in 1..Len(object.q) \cap 1..Len(history[a].value.l)}
    ELSE {[obj |-> object, out |-> history[a].value]}

\* The remote service holds a record under this join key.
Found(key) == key.t = "int" /\ key.i \in RemoteIds
Carries(key, n) ==
    Range(Declaration(n).remote_sources) \subseteq DOMAIN RemoteRecord(key.i)

\* C1: on the collection path every access invokes the list endpoint of each
\* own RemoteField at most once, exactly once when the access returns,
\* whatever the number of records, and never a detail endpoint of its own
\* remote fields.
C1_ListOncePerField ==
    IsCollection =>
        \A a \in Accesses : \A n \in RemoteNames :
            /\ Len(OwnCalls(a, n, "list")) <= 1
            /\ Returned(a) => OwnCalls(a, n, "list") = <<None>>
            /\ OwnCalls(a, n, "detail") = <<>>

C1_Witness ==
    /\ serializer = "TwoFieldsTestSerializer"
    /\ IsCollection /\ Len(object.q) >= 2
    /\ Len(history) >= 1 /\ Returned(1)

\* C2 as stated: on the single-record path a returning access invokes the
\* detail endpoint of each own RemoteField exactly once with the join key as
\* pk, except a null join key: no call and null written; never the list
\* endpoint.
C2_DetailOnceUnlessNull ==
    IsSingle =>
        \A a \in Accesses : Returned(a) => \A n \in RemoteNames :
            /\ OwnCalls(a, n, "list") = <<>>
            /\ IF JoinKey(object, n) = None
               THEN OwnCalls(a, n, "detail") = <<>> /\ history[a].value.d[n] = None
               ELSE OwnCalls(a, n, "detail") = <<JoinKey(object, n)>>

\* C2 amended: as C2, and a join key that is a nested mapping also makes no
\* call: the mapping itself is written under the remote field's name.
C2_DetailOnceUnlessNullOrExpanded ==
    IsSingle =>
        \A a \in Accesses : Returned(a) => \A n \in RemoteNames :
            /\ OwnCalls(a, n, "list") = <<>>
            /\ CASE JoinKey(object, n) = None ->
                      /\ OwnCalls(a, n, "detail") = <<>>
                      /\ history[a].value.d[n] = None
                 [] JoinKey(object, n).t = "dict" ->
                      /\ OwnCalls(a, n, "detail") = <<>>
                      /\ history[a].value.d[n] = JoinKey(object, n)
                 [] OTHER -> OwnCalls(a, n, "detail") = <<JoinKey(object, n)>>

C2_Witness ==
    /\ serializer = "TwoFieldsTestSerializer"
    /\ object = TwoObj(1, <<None, Num(1)>>)
    /\ Len(history) >= 1 /\ Returned(1)

\* C3: on both paths, in every returning access, a record whose join key
\* finds a remote record carrying the declared remote_sources gets: for a
\* flat field the scalar remote_record[remote_sources[0]]; otherwise a
\* mapping whose keys are exactly remote_sources with the remote values.
C3_ProjectionRule ==
    IsCollection \/ object.t = "obj" =>
        \A a \in Accesses : Returned(a) =>
            \A p \in Pairs(a) : \A n \in RemoteNames :
                LET key == JoinKey(p.obj, n)
                    written == p.out.d[n]
                    decl == Declaration(n)
                IN Found(key) /\ Carries(key, n) =>
                      IF decl.flat
                      THEN written = RemoteRecord(key.i)[decl.remote_sources[1]]
                      ELSE /\ written.t = "dict"
                           /\ DOMAIN written.d = Range(decl.remote_sources)
                           /\ \A x \in DOMAIN written.d :
                                 written.d[x] = RemoteRecord(key.i)[x]

C3_Witness ==
    /\ serializer = "TwoFieldsTestSerializer"
    /\ IsCollection /\ Len(object.q) >= 1
    /\ object.q[1] = TwoObj(1, <<Num(1), Num(1)>>)
    /\ Len(history) >= 1 /\ Returned(1)
    /\ history[1].value.l[1].d["owner_name"] = Str("Name of the thing")

\* The first access over a freshly serialized queryset.
FreshCollection == IsCollection /\ ~HasNested /\ Len(history) >= 1
FreshSingle == IsSingle /\ ~HasNested /\ Len(history) >= 1
First == history[1]

\* Some record of the batch carries a mapping as a join key.
SomeExpandedKey ==
    \E k \in 1..Len(object.q) : \E n \in RemoteNames :
        JoinKey(object.q[k], n).t = "dict"

\* What C4 promises for the records of the first access: same length and
\* order, null for a join key the list result does not hold, the projection
\* for a join key it holds (with the declared remote_sources).
C4_Records ==
    /\ Len(First.value.l) = Len(object.q)
    /\ \A k \in 1..Len(object.q) :
          /\ First.value.l[k].d["id"] = getattr(object.q[k], "id")
          /\ \A n \in RemoteNames :
                LET key == JoinKey(object.q[k], n)
                    written == First.value.l[k].d[n]
                IN /\ ~Found(key) => written = None
                   /\ Found(key) /\ Carries(key, n) /\ ~Declaration(n).flat =>
                         written = Dict([x \in Range(Declaration(n).remote_sources) |->
                                            RemoteRecord(key.i)[x]])
                   /\ Found(key) /\ Carries(key, n) /\ Declaration(n).flat =>
                         written = RemoteRecord(key.i)[Declaration(n).remote_sources[1]]

FailingFields ==
    {n \in RemoteNames :
        LET key == JoinKey(object, n) IN key.t = "int" /\ key.i \notin RemoteIds}

\* The fields of the record that are not remote fields, as serialized.
LocalIntact(out) ==
    \A n \in DOMAIN out.d \ RemoteNames :
        out.d[n] = IF object = None THEN Num(0) ELSE getattr(object, n)

\* C5: on the single-record path a KeyError or ValueError of the detail
\* endpoint nulls that remote field only: the access returns, the local
\* fields are intact and every other remote field was resolved; any other
\* endpoint failure propagates and no result is returned.
C5_LookupFailureDegrades ==
    FreshSingle =>
        IF remote.missFault \in {"KeyError", "ValueError"} \/ FailingFields = {}
        THEN /\ First.exc = "none"
             /\ LocalIntact(First.value)
             /\ \A n \in FailingFields : First.value.d[n] = None
             /\ \A n \in RemoteNames \ FailingFields :
                   LET key == JoinKey(object, n) IN
                   /\ Found(key) => OwnCalls(1, n, "detail") = <<key>>
                   /\ Found(key) /\ Carries(key, n) => First.value.d[n] # None
        ELSE /\ First.exc = remote.missFault
             /\ First.value = None

C5_Witness ==
    /\ serializer = "TwoFieldsTestSerializer" /\ FreshSingle
    /\ object = TwoObj(1, <<Num(AbsentId), Num(1)>>)
    /\ remote.missFault = "ValueError"
    /\ First.exc = "none"
    /\ First.value.d["thing"] = None
    /\ First.value.d["owner_name"] = Str("Name of the thing")

\* The records a returned value is made of.
OutRecords(a) ==
    IF history[a].value.t = "list" THEN Range(history[a].value.l)
    ELSE {history[a].value}
DeclaredFields == Range(Class(serializer).fields)

\* C6 as stated: after `data` returns, the keys of every output record are
\* exactly the originally declared output fields.
C6_KeysAreDeclaredFields ==
    \A a \in Accesses : Returned(a) =>
        \A r \in OutRecords(a) : DOMAIN r.d = DeclaredFields

\* C6 amended: the keys are the originally declared output fields, less the
\* read-only `id` when the serializer was built over no object; an added
\* join key is never left, a declared join key is kept.
C6_KeysAreSerializedDeclaredFields ==
    \A a \in Accesses : Returned(a) =>
        \A r \in OutRecords(a) :
            DOMAIN r.d = IF object = None THEN DeclaredFields \ {"id"}
                         ELSE DeclaredFields

C6_Witness ==
    /\ serializer = "TwoFieldsTestSerializer" /\ object = None
    /\ Len(history) >= 1 /\ Returned(1)
    /\ DOMAIN First.value.d = {"thing", "owner_id", "owner_name"}

\* The resolved `thing` of a nested TestSerializer record whose join key is
\* v: an expanded mapping is kept, a key the service holds with `id` and
\* `name` gives those two, anything else null.
ExpectedThing(v) ==
    IF v.t = "dict" THEN v
    ELSE IF Found(v) /\ {"id", "name"} \subseteq DOMAIN RemoteRecord(v.i)
    THEN Dict([id |-> RemoteRecord(v.i)["id"], name |-> RemoteRecord(v.i)["name"]])
    ELSE None
ExpectedChild(c) ==
    Dict([id |-> getattr(c, "id"), thing |-> ExpectedThing(getattr(c, "thing_id"))])
NestedNames == {n \in DOMAIN Class(serializer).declared :
                   Class(serializer).declared[n].kind = "serializer"}

\* C7: in every returning access each parent record holds, under a nested
\* serializer's name, the child's resolved record; for a to-many relation
\* the list of the children's resolved records in relation order, the empty
\* list for an empty relation.
C7_NestedResolved ==
    IsCollection \/ object.t = "obj" =>
        \A a \in Accesses : Returned(a) =>
            \A p \in Pairs(a) : \A n \in NestedNames :
                LET related == getattr(p.obj, n) IN
                IF related.t = "manager"
                THEN p.out.d[n] =
                        List([k \in 1..Len(related.m) |-> ExpectedChild(related.m[k])])
                ELSE p.out.d[n] = ExpectedChild(related)

C7_Witness ==
    /\ serializer = "ParentWithManyTestSerializer"
    /\ object = QuerySet(<<
          ParentManyObj(1, <<ThingObj(1, Num(1)), ThingObj(2, Num(AbsentId))>>),
          ParentManyObj(2, <<>>)>>)
    /\ Len(history) >= 1 /\ Returned(1)
    /\ First.value.l[2].d["test_instances"] = List(<<>>)
    /\ Len(First.value.l[1].d["test_instances"].l) = 2

\* Some serialized object has a join key whose remote record lacks a
\* declared remote source.
LacksAttribute ==
    \E obj \in (IF IsCollection THEN Range(object.q) ELSE {object}) :
        \E n \in RemoteNames :
            Found(JoinKey(obj, n)) /\ ~Carries(JoinKey(obj, n), n)

\* C8 as stated: a fetched remote record that lacks a declared remote source
\* makes the access fail, on both paths.
C8_MissingAttributeRaises ==
    (FreshCollection \/ FreshSingle) /\ LacksAttribute => First.exc # "none"

\* C8 amended: the missing attribute is caught as a KeyError on both paths:
\* the field is null in the returned record, and the access fails only for
\* another reason (list endpoint down or a mapping join key on the
\* collection path, an uncaught detail failure on the single-record path).
C8_MissingAttributeIsNull ==
    /\ IsCollection \/ object.t = "obj" =>
          \A a \in Accesses : Returned(a) =>
              \A p \in Pairs(a) : \A n \in RemoteNames :
                  LET key == JoinKey(p.obj, n) IN
                  Found(key) /\ ~Carries(key, n) => p.out.d[n] = None
    /\ FreshCollection /\ LacksAttribute /\ First.exc # "none" =>
          remote.listDown \/ SomeExpandedKey
    /\ FreshSingle /\ LacksAttribute /\ First.exc # "none" =>
          remote.missFault = "OtherError" /\ FailingFields # {}

C8_Witness ==
    /\ serializer = "TestSerializer" /\ FreshCollection
    /\ remote.shape = "noname"
    /\ object = QuerySet(<<ThingObj(1, Num(2)), ThingObj(2, Num(1))>>)
    /\ First.exc = "none"
    /\ First.value.l[1].d["thing"] = None
    /\ First.value.l[2].d["thing"].t = "dict"

\* C9: a second access to `data` of a serializer built over an instance or
\* a queryset, after a first access that returned, also returns, with the
\* same output.
C9_Idempotent ==
    object # None /\ Len(history) >= 2 /\ Returned(1) =>
        Returned(2) /\ history[2].value = history[1].value

\* The value the framework has put under remote field n before resolution.
OutputBefore(n) == field_to_native(Declaration(n), object)

ParentCalls(a) == {i \in DOMAIN history[a].calls :
                     history[a].calls[i].serializer = serializer}
NestedCalls(a) == {i \in DOMAIN history[a].calls :
                     history[a].calls[i].serializer # serializer}

\* C11 (as stated): within one access to `data`, every endpoint call made
\* for the parent's own remote fields happens before any endpoint call made
\* by a nested serializer's resolution.
C11_ParentBeforeNested ==
    \A a \in Accesses :
        \A i \in ParentCalls(a) : \A j \in NestedCalls(a) : i < j

\* C11 (amended): within one access to `data`, every endpoint call made by
\* a nested serializer's resolution happens before any endpoint call made
\* for the parent's own remote fields.
C11_NestedBeforeParent ==
    \A a \in Accesses :
        \A i \in ParentCalls(a) : \A j \in NestedCalls(a) : j < i

C11_Witness ==
    /\ serializer = "ParentWithThingTestSerializer"
    /\ object.t = "obj"
    /\ \E a \in Accesses :
          /\ Returned(a)
          /\ ParentCalls(a) # {}
          /\ NestedCalls(a) # {}
          /\ history[a].value.d["thing"] # None
          /\ history[a].value.d["test_instance"].d["thing"] # None

====
